---- MODULE Spec2Model ----
(***************************************************************************)
(* EdDSA (Ed25519, RFC 8032) signature scheme of Crypto.Signature.eddsa:   *)
(* new, EdDSASigScheme.can_sign / sign / verify, import_public_key and     *)
(* import_private_key.                                                     *)
(*                                                                         *)
(* The scheme logic (checks, their order, dom2, the hash inputs, the       *)
(* scalar and point equations, the byte layout of the signature) is        *)
(* translated from eddsa.py.  The collaborators that eddsa.py imports      *)
(* (SHA512, Integer, EccKey / the curve) are not part of that file; they   *)
(* are modelled from their contract: a deterministic hash to 64 bytes, a   *)
(* cyclic group of order 8*L with a generator G of prime order L, and a    *)
(* 32-byte point encoding that carries a sign bit in bit 7 of the last     *)
(* byte and that rejects out-of-range values.                              *)
(***************************************************************************)
EXTENDS Integers, Sequences, FiniteSets, TLC

VARIABLES schemes, held, last, heap, calls

vars == <<schemes, held, last, heap, calls>>

----------------------------------------------------------------------------
(* Bounds of the model *)

\* longest raw message drawn as an input
MaxMsgLen == 1
\* number of scheme objects a run constructs
MaxSchemes == 2
\* integers decoded from bytes saturate here (every value the code compares
\* them with is smaller)
IntCap == 1048576

----------------------------------------------------------------------------
(* Program constants *)

\* length of an encoded point, of an encoded scalar and of a seed
KeyLen == 32
\* length of a signature
SigLen == 64
\* longest context accepted by new
MaxContextLen == 255

\* b'SigEd25519 no Ed25519 collisions'
DomPrefix ==
    << 83, 105, 103, 69, 100, 50, 53, 53, 49, 57, 32, 110, 111, 32, 69, 100,
       50, 53, 53, 49, 57, 32, 99, 111, 108, 108, 105, 115, 105, 111, 110, 115 >>

----------------------------------------------------------------------------
(* Collaborators: integers <-> bytes (Crypto.Math.Numbers.Integer)         *)

Min(a, b) == IF a < b THEN a ELSE b

\* the i-th byte of b, 0 beyond its end
ByteAt(b, i) == IF i <= Len(b) THEN b[i] ELSE 0

\* Integer.from_bytes(b, 'little'), saturating at IntCap (which is below
\* 256^3, so that a non-zero byte beyond the third saturates)
FromBytesLE(b) ==
    IF \E i \in 4..Len(b) : b[i] # 0 THEN IntCap
    ELSE Min(IntCap, ByteAt(b, 1) + 256 * ByteAt(b, 2) + 65536 * ByteAt(b, 3))

RECURSIVE PowMod(_, _)
\* 256^n % m
PowMod(n, m) ==
    IF n = 0 THEN 1 % m
    ELSE LET h == PowMod(n \div 2, m)
         IN  (((h * h) % m) * (IF n % 2 = 1 THEN 256 ELSE 1)) % m

RECURSIVE FromBytesModRange(_, _, _, _)
\* the little-endian value of b[lo..hi], modulo m
FromBytesModRange(b, lo, hi, m) ==
    IF lo > hi THEN 0
    ELSE IF lo = hi THEN b[lo] % m
    ELSE LET mid == (lo + hi) \div 2
         IN  (FromBytesModRange(b, lo, mid, m)
                + PowMod(mid - lo + 1, m)
                    * FromBytesModRange(b, mid + 1, hi, m)) % m

\* Integer.from_bytes(b, 'little') % m, exact for every b
FromBytesMod(b, m) == FromBytesModRange(b, 1, Len(b), m)

\* n.to_bytes(len, 'little'), for 0 <= n < 256^4
ToBytesLE(n, len) ==
    [i \in 1..len |->
        IF i = 1 THEN n % 256
        ELSE IF i = 2 THEN (n \div 256) % 256
        ELSE IF i = 3 THEN (n \div 65536) % 256
        ELSE IF i = 4 THEN (n \div 16777216) % 256
        ELSE 0]

\* bchr(n) = bytes([n]); raises ValueError outside range(256)
BchrFails(n) == n < 0 \/ n > 255
bchr(n) == <<n>>

\* a byte string of n copies of byte c
Fill(n, c) == [i \in 1..n |-> c]

----------------------------------------------------------------------------
(* Collaborator: the 512-bit hash (Crypto.Hash.SHA512)                     *)

HashMod == 65521
HashMul == 251
HashLen == 64

\* absorbs the byte data[i], when i <= hi, into the accumulator acc
Absorb(data, i, hi, acc) ==
    IF i > hi THEN acc ELSE (acc * HashMul + data[i] + 1) % HashMod

\* absorbs the bytes data[lo..hi], at most eight of them
AbsorbBlock(data, lo, hi, acc) ==
    Absorb(data, lo + 7, hi,
      Absorb(data, lo + 6, hi,
        Absorb(data, lo + 5, hi,
          Absorb(data, lo + 4, hi,
            Absorb(data, lo + 3, hi,
              Absorb(data, lo + 2, hi,
                Absorb(data, lo + 1, hi,
                  Absorb(data, lo, hi, acc))))))))

\* the one element of a set of one element
The(S) == CHOOSE x \in S : TRUE

RECURSIVE HashRange(_, _, _, _)
\* absorbs data[lo..hi] into the accumulator acc, first byte first
HashRange(data, lo, hi, acc) ==
    IF hi - lo < 8 THEN AbsorbBlock(data, lo, hi, acc)
    ELSE The({HashRange(data, ((lo + hi) \div 2) + 1, hi, left) :
                left \in {HashRange(data, lo, (lo + hi) \div 2, acc)}})

\* the 64 bytes drawn from the accumulator
Digest(acc) ==
    [j \in 1..HashLen |-> (acc * (2 * j + 1) + (acc \div j) + j) % 256]

\* SHA512.new(data).digest(): bytes -> 64 bytes
SHA512(data) ==
    The({Digest(acc) :
           acc \in {HashRange(bytes, 1, Len(bytes), Len(bytes) + 1) :
                      bytes \in {data}}})

----------------------------------------------------------------------------
(* Collaborator: the curve (Crypto.PublicKey.ECC)                          *)

\* order of the generator G (a prime)
L == 13
\* the cofactor
Cofactor == 8
\* the group of points: the integers modulo Cofactor * L under addition
GroupOrder == Cofactor * L
Points == 0..(GroupOrder - 1)
\* the neutral element
PointZero == 0
\* the generator of the subgroup of order L
G == Cofactor
\* the points of order dividing 8
Torsion == {(L * j) % GroupOrder : j \in 0..(Cofactor - 1)}

\* point addition, P + Q
PointAdd(P, Q) == (P + Q) % GroupOrder
\* scalar multiplication, n * P
ScalarMul(n, P) == ((n % GroupOrder) * P) % GroupOrder

\* EccKey._export_ed25519: 32 bytes, the y value little-endian, the sign of
\* x in bit 7 of the last byte
ExportEd25519(P) ==
    LET y == P \div 2
        sign == P % 2
        yb == ToBytesLE(y, KeyLen)
    IN  [yb EXCEPT ![KeyLen] = yb[KeyLen] + 128 * sign]

\* _import_ed25519_public_key fails (ValueError) on a wrong length or a y
\* value that is no point
ImportPointFails(encoded) ==
    \/ Len(encoded) # KeyLen
    \/ FromBytesLE([encoded EXCEPT ![KeyLen] = encoded[KeyLen] % 128])
           >= GroupOrder \div 2

\* _import_ed25519_public_key followed by construct: the point decoded
ImportPoint(encoded) ==
    LET sign == encoded[KeyLen] \div 128
        y == FromBytesLE([encoded EXCEPT ![KeyLen] = encoded[KeyLen] % 128])
    IN  2 * y + sign

NoBytes == <<>>

\* construct(curve="Ed25519", point_x=x, point_y=y): a public-only key
PublicKey(P) ==
    [type |-> "EccKey", curve |-> "ed25519", private |-> FALSE, d |-> 0,
     prefix |-> NoBytes, pointQ |-> P]

\* construct(seed=encoded, curve="ed25519"): the clamped scalar d (a
\* multiple of the cofactor, not a multiple of L), the prefix, and A = d*G
PrivateKey(seed) ==
    LET h == SHA512(seed)
        d == Cofactor * (1 + FromBytesMod(SubSeq(h, 1, KeyLen), L - 1))
    IN  [type |-> "EccKey", curve |-> "ed25519", private |-> TRUE, d |-> d,
         prefix |-> SubSeq(h, KeyLen + 1, 2 * KeyLen),
         pointQ |-> ScalarMul(d, G)]

----------------------------------------------------------------------------
(* Results of a call: the exception raised ("none": a normal return)       *)

Returned == [exc |-> "none", msg |-> ""]
Raised(exc, msg) == [exc |-> exc, msg |-> msg]

ErrKeyLength ==
    Raised("ValueError",
           "Incorrect length. Only Ed25519 private keys are supported.")
ErrKeyParse == Raised("ValueError", "Invalid Ed25519 public key")
ErrNotEd25519 ==
    Raised("ValueError", "EdDSA can only be used with Ed25519 keys")
ErrMode == Raised("ValueError", "Mode must be 'rfc8032'")
ErrContextTooLong ==
    Raised("ValueError", "Context for EdDSA must not be longer than 255 bytes")
ErrPrivateKeyNeeded == Raised("TypeError", "Private key is needed to sign")
ErrInputType ==
    Raised("TypeError", "'msg_or_hash' must be bytes of a SHA-512 hash")
ErrBchr == Raised("ValueError", "bytes must be in range(0, 256)")
ErrSigLength == Raised("ValueError", "The signature is not authentic (length)")
ErrSigR == Raised("ValueError", "The signature is not authentic (R)")
ErrSigS == Raised("ValueError", "The signature is not authentic (S)")
ErrSigEquation == Raised("ValueError", "The signature is not authentic")

----------------------------------------------------------------------------
(* Key import                                                              *)

NoKey ==
    [type |-> "NoneType", curve |-> "", private |-> FALSE, d |-> 0,
     prefix |-> NoBytes, pointQ |-> PointZero]

import_public_key(encoded) ==
    IF ImportPointFails(encoded)
    THEN [res |-> ErrKeyParse, key |-> NoKey]
    ELSE [res |-> Returned, key |-> PublicKey(ImportPoint(encoded))]

import_private_key(encoded) ==
    IF Len(encoded) # KeyLen
    THEN [res |-> ErrKeyLength, key |-> NoKey]
    ELSE [res |-> Returned, key |-> PrivateKey(encoded)]

----------------------------------------------------------------------------
(* EdDSASigScheme                                                          *)

EdDSASigScheme(key, context) ==
    [key |-> key, context |-> context, A |-> ExportEd25519(key.pointQ),
     order |-> L]

NoScheme == EdDSASigScheme(NoKey, NoBytes)

\* can_sign that does not look at the key
can_sign_always(self) == TRUE

can_sign(self) == self.key.private

\* isinstance(msg_or_hash, SHA512.SHA512Hash)
IsSHA512Hash(msg_or_hash) == msg_or_hash.type = "SHA512Hash"
is_bytes(msg_or_hash) == msg_or_hash.type = "bytes"

\* dom2 without its length byte
SignDom2NoLength(self, ph) ==
    IF self.context # <<>> \/ ph
    THEN LET flag == IF ph THEN 1 ELSE 0
         IN  DomPrefix \o bchr(flag) \o self.context
    ELSE <<>>

\* dom2 as sign builds it
SignDom2(self, ph) ==
    IF self.context # <<>> \/ ph
    THEN LET flag == IF ph THEN 1 ELSE 0
         IN  DomPrefix \o bchr(flag) \o bchr(Len(self.context)) \o self.context
    ELSE <<>>

\* dom2 that leaves the context out
VerifyDom2NoContext(self, ph) ==
    IF ph THEN DomPrefix \o bchr(1) \o bchr(0) ELSE <<>>

\* dom2 as verify builds it
VerifyDom2(self, ph) ==
    IF self.context # <<>> \/ ph
    THEN LET flag == IF ph THEN 1 ELSE 0
         IN  DomPrefix \o bchr(flag) \o bchr(Len(self.context)) \o self.context
    ELSE <<>>

\* PHM = msg_or_hash.digest() if ph else msg_or_hash
PHMOf(msg_or_hash, ph) ==
    IF ph THEN SHA512(msg_or_hash.data) ELSE msg_or_hash.data

\* a nonce that also depends on what was signed before
SignRHedged(self, dom2, PHM) ==
    (FromBytesMod(SHA512(dom2 \o self.key.prefix \o PHM), self.order)
        + (IF held.has THEN 1 ELSE 0)) % self.order

\* Step 2 of sign: the nonce r
SignR(self, dom2, PHM) ==
    FromBytesMod(SHA512(dom2 \o self.key.prefix \o PHM), self.order)

\* Step 3 of sign: R_pk
SignRpk(self, r) == ExportEd25519(ScalarMul(r, G))

\* the bytes hashed into k, dom2 left out
SignKInputNoDom2(self, dom2, R_pk, PHM) == R_pk \o self.A \o PHM

\* the bytes hashed into k by sign
SignKInput(self, dom2, R_pk, PHM) == dom2 \o R_pk \o self.A \o PHM

\* Step 4 of sign: k
SignK(self, kin) == FromBytesMod(SHA512(kin), self.order)

\* Step 5 of sign: s
SignS(self, r, k) == (r + k * self.key.d) % self.order

\* the value sign returns
SignEncode(R_pk, s) == R_pk \o ToBytesLE(s, 32)

NoCall ==
    [res |-> Returned, out |-> NoBytes, dom2 |-> NoBytes, kin |-> NoBytes,
     k |-> 0]

\* the check of the private half, lines 118-119
SignNeedsPrivate(self) == ~ self.key.private

\* sign from line 125 on: dom2, PHM and steps 2 to 5
SignCompute(self, msg_or_hash) ==
    LET ph == IsSHA512Hash(msg_or_hash) IN
    IF (self.context # <<>> \/ ph) /\ BchrFails(Len(self.context))
    THEN [NoCall EXCEPT !.res = ErrBchr]
    ELSE
    LET dom2 == SignDom2(self, ph)
        PHM == PHMOf(msg_or_hash, ph)
        r == SignR(self, dom2, PHM)
        R_pk == SignRpk(self, r)
        kin == SignKInput(self, dom2, R_pk, PHM)
        k == SignK(self, kin)
        s == SignS(self, r, k)
    IN  [res |-> Returned, out |-> SignEncode(R_pk, s), dom2 |-> dom2,
         kin |-> kin, k |-> k]

\* sign that checks the type of its input before the private half
sign_type_first(self, msg_or_hash) ==
    IF ~ (IsSHA512Hash(msg_or_hash) \/ is_bytes(msg_or_hash))
    THEN [NoCall EXCEPT !.res = ErrInputType]
    ELSE IF SignNeedsPrivate(self)
    THEN [NoCall EXCEPT !.res = ErrPrivateKeyNeeded]
    ELSE SignCompute(self, msg_or_hash)

sign(self, msg_or_hash) ==
    IF SignNeedsPrivate(self)
    THEN [NoCall EXCEPT !.res = ErrPrivateKeyNeeded]
    ELSE IF ~ (IsSHA512Hash(msg_or_hash) \/ is_bytes(msg_or_hash))
    THEN [NoCall EXCEPT !.res = ErrInputType]
    ELSE SignCompute(self, msg_or_hash)

\* the range check of s, lines 185-186
VerifySOutOfRange(self, s) == s > self.order

\* the bytes hashed into k by verify
VerifyKInput(self, dom2, signature, PHM) ==
    dom2 \o SubSeq(signature, 1, 32) \o self.A \o PHM

\* Step 2 of verify: k
VerifyK(self, kin) == FromBytesMod(SHA512(kin), self.order)

\* the comparison without the multiplication by 8
VerifyEquationNoCofactor(self, R, s, k) ==
    LET point1 == ScalarMul(s, G)
        point2 == PointAdd(R, ScalarMul(k, self.key.pointQ))
    IN  point1 = point2

\* Step 3 of verify: point1 == point2
VerifyEquation(self, R, s, k) ==
    LET point1 == ScalarMul(s * 8, G)
        point2 == PointAdd(ScalarMul(8, R), ScalarMul(k * 8, self.key.pointQ))
    IN  point1 = point2

verify(self, msg_or_hash, signature) ==
    IF Len(signature) # SigLen
    THEN [NoCall EXCEPT !.res = ErrSigLength]
    ELSE
    LET ph == IsSHA512Hash(msg_or_hash) IN
    IF ~ (ph \/ is_bytes(msg_or_hash))
    THEN [NoCall EXCEPT !.res = ErrInputType]
    ELSE IF (self.context # <<>> \/ ph) /\ BchrFails(Len(self.context))
    THEN [NoCall EXCEPT !.res = ErrBchr]
    ELSE
    LET dom2 == VerifyDom2(self, ph)
        PHM == PHMOf(msg_or_hash, ph)
        imported == import_public_key(SubSeq(signature, 1, 32))
    IN
    IF imported.res.exc = "ValueError"
    THEN [NoCall EXCEPT !.res = ErrSigR, !.dom2 = dom2]
    ELSE
    LET R == imported.key.pointQ
        s == FromBytesLE(SubSeq(signature, 33, 64))
    IN
    IF VerifySOutOfRange(self, s)
    THEN [NoCall EXCEPT !.res = ErrSigS, !.dom2 = dom2]
    ELSE
    LET kin == VerifyKInput(self, dom2, signature, PHM)
        k == VerifyK(self, kin)
    IN  [res |-> IF VerifyEquation(self, R, s, k) THEN Returned
                 ELSE ErrSigEquation,
         out |-> NoBytes, dom2 |-> dom2, kin |-> kin, k |-> k]

\* the bound on the context, off by one
ContextTooLongOffByOne(context) == Len(context) > MaxContextLen + 1

\* the bound on the context, line 226
ContextTooLong(context) == Len(context) > MaxContextLen

new(key, mode, context) ==
    IF key.type # "EccKey" \/ key.curve # "ed25519"
    THEN [res |-> ErrNotEd25519, obj |-> NoScheme]
    ELSE IF mode # "rfc8032"
    THEN [res |-> ErrMode, obj |-> NoScheme]
    ELSE IF ~ context.given
    THEN [res |-> Returned, obj |-> EdDSASigScheme(key, <<>>)]
    ELSE IF ContextTooLong(context.bytes)
    THEN [res |-> ErrContextTooLong, obj |-> NoScheme]
    ELSE [res |-> Returned, obj |-> EdDSASigScheme(key, context.bytes)]

----------------------------------------------------------------------------
(* Inputs                                                                  *)

RECURSIVE BytesUpTo(_)
\* the raw messages: every string of the byte 7 of length 0..n
BytesUpTo(n) == IF n = 0 THEN {<<>>} ELSE BytesUpTo(n - 1) \cup {Fill(n, 7)}

Messages == BytesUpTo(MaxMsgLen)

\* msg_or_hash: raw bytes, a SHA512 hash object that absorbed data, or
\* an object that is neither
Inputs ==
    [type : {"bytes", "SHA512Hash"}, data : Messages]
        \cup {[type |-> "str", data |-> <<>>]}

NoInput == [type |-> "NoneType", data |-> <<>>]

\* the seeds handed to import_private_key
Seeds == {Fill(32, 1)}

PrivateKeys == {import_private_key(seed).key : seed \in Seeds}

\* encodings handed to import_public_key: the public halves of the private
\* keys, a point of order 8, and a string that is no point
PublicEncodings ==
    {ExportEd25519(key.pointQ) : key \in PrivateKeys}
        \cup {ExportEd25519(L), Fill(32, 255)}

PublicKeys ==
    {import_public_key(e).key :
        e \in {x \in PublicEncodings : import_public_key(x).res = Returned}}

\* a key on another curve
P256Key == [PublicKey(PointZero) EXCEPT !.curve = "p256"]

KeyArgs == PrivateKeys \cup PublicKeys \cup {P256Key, NoKey}

ModeArgs == {"rfc8032", "fips-186-3"}

\* context=None
NoContext == [given |-> FALSE, bytes |-> <<>>]
Context(bytes) == [given |-> TRUE, bytes |-> bytes]

ContextArgs ==
    {NoContext, Context(<<>>), Context(<<65>>), Context(Fill(255, 66)),
     Context(Fill(256, 66))}

\* a signature with its scalar replaced
WithS(signature, s) == SubSeq(signature, 1, 32) \o ToBytesLE(s, 32)
\* a signature with a point added to its R
WithRPlus(signature, T) ==
    ExportEd25519(PointAdd(ImportPoint(SubSeq(signature, 1, 32)), T))
        \o SubSeq(signature, 33, 64)

\* the signatures handed to verify: the one kept from sign, variants of
\* it, and strings built without any key
SignatureArgs ==
    LET crafted ==
            {ExportEd25519(PointZero) \o ToBytesLE(0, 32),
             ExportEd25519(PointZero) \o ToBytesLE(L, 32),
             Fill(32, 255) \o ToBytesLE(1, 32)}
        kept == held.call.out
        sOf == FromBytesLE(SubSeq(kept, 33, 64))
    IN  IF held.has
        THEN crafted \cup
             {kept, WithS(kept, sOf + L), WithRPlus(kept, L),
              SubSeq(kept, 1, 63)}
        ELSE crafted

----------------------------------------------------------------------------
(* State                                                                   *)
(* One caller, each call run to its end (Spec):                            *)
(*   schemes  the scheme objects constructed so far, by their value        *)
(*   last     the call that has just ended: its arguments and its outcome  *)
(*   held     a signature the caller kept from an earlier sign             *)
(* Concurrent callers sharing the scheme objects (SpecConc):               *)
(*   heap     the scheme objects constructed so far, by their identity     *)
(*   calls    per caller, the call in progress: its position, its          *)
(*            arguments and its local variables                            *)

NoLast ==
    [op |-> "none", self |-> NoScheme, input |-> NoInput,
     signature |-> NoBytes, call |-> NoCall, flag |-> FALSE, key |-> NoKey,
     mode |-> "", context |-> NoContext]

NoHeld == [has |-> FALSE, self |-> NoScheme, input |-> NoInput, call |-> NoCall]

Callers == {"c1", "c2"}

Idle ==
    [pc |-> "idle", op |-> "none", self |-> 0, input |-> NoInput,
     signature |-> NoBytes, call |-> NoCall, flag |-> FALSE, PHM |-> NoBytes,
     r |-> 0, R_pk |-> NoBytes, R |-> PointZero, s |-> 0]

Init ==
    /\ schemes = {}
    /\ last = NoLast
    /\ held = NoHeld
    /\ heap = <<>>
    /\ calls = [c \in Callers |-> Idle]

----------------------------------------------------------------------------
(* One caller, each call run to its end                                    *)

ImportPublicKey(encoded) ==
    /\ last.op = "none"
    /\ last' = [NoLast EXCEPT !.op = "import_public_key",
                              !.signature = encoded,
                              !.call.res = import_public_key(encoded).res,
                              !.key = import_public_key(encoded).key]
    /\ UNCHANGED <<schemes, held, heap, calls>>

ImportPrivateKey(encoded) ==
    /\ last.op = "none"
    /\ last' = [NoLast EXCEPT !.op = "import_private_key",
                              !.signature = encoded,
                              !.call.res = import_private_key(encoded).res,
                              !.key = import_private_key(encoded).key]
    /\ UNCHANGED <<schemes, held, heap, calls>>

New(key, mode, context) ==
    /\ last.op = "none"
    /\ Cardinality(schemes) < MaxSchemes
    /\ last' = [NoLast EXCEPT !.op = "new",
                              !.call.res = new(key, mode, context).res,
                              !.self = new(key, mode, context).obj,
                              !.key = key, !.mode = mode,
                              !.context = context]
    /\ schemes' = IF new(key, mode, context).res = Returned
                  THEN schemes \cup {new(key, mode, context).obj}
                  ELSE schemes
    /\ UNCHANGED <<held, heap, calls>>

CanSign(self) ==
    /\ last.op = "none"
    /\ last' = [NoLast EXCEPT !.op = "can_sign", !.self = self,
                              !.flag = can_sign(self)]
    /\ UNCHANGED <<schemes, held, heap, calls>>

Sign(self, msg_or_hash) ==
    /\ last.op = "none"
    /\ last' = [NoLast EXCEPT !.op = "sign", !.self = self,
                              !.input = msg_or_hash,
                              !.call = sign(self, msg_or_hash)]
    /\ UNCHANGED <<schemes, held, heap, calls>>

Verify(self, msg_or_hash, signature) ==
    /\ last.op = "none"
    /\ last' = [NoLast EXCEPT !.op = "verify", !.self = self,
                              !.input = msg_or_hash,
                              !.signature = signature,
                              !.call = verify(self, msg_or_hash, signature)]
    /\ UNCHANGED <<schemes, held, heap, calls>>

\* the caller takes the outcome of the call, and may keep a signature that
\* sign returned
Return(keep) ==
    /\ last.op # "none"
    /\ keep => (last.op = "sign" /\ last.call.res = Returned)
    /\ last' = NoLast
    /\ held' = IF keep
               THEN [has |-> TRUE, self |-> last.self, input |-> last.input,
                     call |-> last.call]
               ELSE held
    /\ UNCHANGED <<schemes, heap, calls>>

Next ==
    \/ \E e \in PublicEncodings : ImportPublicKey(e)
    \/ \E e \in Seeds \cup {Fill(31, 1)} : ImportPrivateKey(e)
    \/ \E key \in KeyArgs, mode \in ModeArgs, context \in ContextArgs :
           New(key, mode, context)
    \/ \E self \in schemes : CanSign(self)
    \/ \E self \in schemes, m \in Inputs : Sign(self, m)
    \/ \E self \in schemes, m \in Inputs, sig \in SignatureArgs :
           Verify(self, m, sig)
    \/ \E keep \in BOOLEAN : Return(keep)

Spec == Init /\ [][Next]_vars

----------------------------------------------------------------------------
(* Concurrent callers: a call is a sequence of steps, and the steps of     *)
(* different callers interleave                                            *)

\* the attributes of self after can_sign, sign and verify: none of them
\* assigns to an attribute of self
SchemeAfterCanSign(self) == self
\* sign that keeps dom2 in the object
SchemeAfterSignCaching(self, dom2) == [self EXCEPT !.context = dom2]
SchemeAfterSign(self, dom2) == self
SchemeAfterVerify(self, dom2) == self

ConcInputs ==
    {[type |-> "bytes", data |-> <<7>>],
     [type |-> "SHA512Hash", data |-> <<7>>]}

ConcKeyArgs == PrivateKeys \cup {PublicKey(key.pointQ) : key \in PrivateKeys}

ConcContextArgs == {Context(<<65>>), Context(Fill(256, 66))}

ConcSignatureArgs ==
    {ExportEd25519(PointZero) \o ToBytesLE(0, 32),
     ExportEd25519(G) \o ToBytesLE(L + 1, 32),
     Fill(32, 255) \o ToBytesLE(1, 32)}

Step(c, rec) == calls' = [calls EXCEPT ![c] = rec]

ConcNew(c, key, mode, context) ==
    /\ calls[c].pc = "idle"
    /\ Len(heap) < MaxSchemes
    /\ heap' = IF new(key, mode, context).res = Returned
               THEN Append(heap, new(key, mode, context).obj)
               ELSE heap
    /\ Step(c, [Idle EXCEPT !.pc = "returned", !.op = "new",
                            !.call.res = new(key, mode, context).res,
                            !.self = IF new(key, mode, context).res = Returned
                                     THEN Len(heap) + 1 ELSE 0])
    /\ UNCHANGED <<schemes, held, last>>

ConcCanSign(c, i) ==
    /\ calls[c].pc = "idle"
    /\ Step(c, [Idle EXCEPT !.pc = "returned", !.op = "can_sign", !.self = i,
                            !.flag = can_sign(heap[i])])
    /\ heap' = [heap EXCEPT ![i] = SchemeAfterCanSign(heap[i])]
    /\ UNCHANGED <<schemes, held, last>>

\* sign, lines 118-132: the checks, dom2 and PHM
SignEnter(c, i, msg_or_hash) ==
    /\ calls[c].pc = "idle"
    /\ Step(c,
         LET self == heap[i]
             ph == IsSHA512Hash(msg_or_hash)
             entered == [Idle EXCEPT !.op = "sign", !.self = i,
                                     !.input = msg_or_hash]
         IN  IF SignNeedsPrivate(self)
             THEN [entered EXCEPT !.pc = "returned",
                                  !.call.res = ErrPrivateKeyNeeded]
             ELSE IF ~ (ph \/ is_bytes(msg_or_hash))
             THEN [entered EXCEPT !.pc = "returned",
                                  !.call.res = ErrInputType]
             ELSE [entered EXCEPT !.pc = "sign_r",
                                  !.call.dom2 = SignDom2(self, ph),
                                  !.PHM = PHMOf(msg_or_hash, ph)])
    /\ UNCHANGED <<schemes, held, last, heap>>

\* sign, lines 137-140: r and R_pk
SignNonce(c) ==
    /\ calls[c].pc = "sign_r"
    /\ Step(c,
         LET self == heap[calls[c].self]
             r == SignR(self, calls[c].call.dom2, calls[c].PHM)
         IN  [calls[c] EXCEPT !.pc = "sign_k", !.r = r,
                              !.R_pk = SignRpk(self, r)])
    /\ UNCHANGED <<schemes, held, last, heap>>

\* sign, lines 142-147: k, s and the signature returned
SignFinish(c) ==
    /\ calls[c].pc = "sign_k"
    /\ Step(c,
         LET self == heap[calls[c].self]
             kin == SignKInput(self, calls[c].call.dom2, calls[c].R_pk,
                               calls[c].PHM)
             k == SignK(self, kin)
             s == SignS(self, calls[c].r, k)
         IN  [calls[c] EXCEPT !.pc = "returned", !.call.kin = kin,
                              !.call.k = k, !.s = s,
                              !.call.out = SignEncode(calls[c].R_pk, s)])
    /\ heap' = [heap EXCEPT ![calls[c].self] =
                   SchemeAfterSign(heap[calls[c].self], calls[c].call.dom2)]
    /\ UNCHANGED <<schemes, held, last>>

\* verify, lines 163-177: the checks, dom2 and PHM
VerifyEnter(c, i, msg_or_hash, signature) ==
    /\ calls[c].pc = "idle"
    /\ Step(c,
         LET self == heap[i]
             ph == IsSHA512Hash(msg_or_hash)
             entered == [Idle EXCEPT !.op = "verify", !.self = i,
                                     !.input = msg_or_hash,
                                     !.signature = signature]
         IN  IF Len(signature) # SigLen
             THEN [entered EXCEPT !.pc = "returned",
                                  !.call.res = ErrSigLength]
             ELSE IF ~ (ph \/ is_bytes(msg_or_hash))
             THEN [entered EXCEPT !.pc = "returned",
                                  !.call.res = ErrInputType]
             ELSE [entered EXCEPT !.pc = "verify_r",
                                  !.call.dom2 = VerifyDom2(self, ph),
                                  !.PHM = PHMOf(msg_or_hash, ph)])
    /\ UNCHANGED <<schemes, held, last, heap>>

\* verify, lines 180-186: R and s
VerifyDecode(c) ==
    /\ calls[c].pc = "verify_r"
    /\ Step(c,
         LET self == heap[calls[c].self]
             imported == import_public_key(SubSeq(calls[c].signature, 1, 32))
             s == FromBytesLE(SubSeq(calls[c].signature, 33, 64))
         IN  IF imported.res.exc = "ValueError"
             THEN [calls[c] EXCEPT !.pc = "returned", !.call.res = ErrSigR]
             ELSE IF VerifySOutOfRange(self, s)
             THEN [calls[c] EXCEPT !.pc = "returned", !.call.res = ErrSigS]
             ELSE [calls[c] EXCEPT !.pc = "verify_k",
                                   !.R = imported.key.pointQ, !.s = s])
    /\ UNCHANGED <<schemes, held, last, heap>>

\* verify, lines 188-196: k and the comparison of the two points
VerifyFinish(c) ==
    /\ calls[c].pc = "verify_k"
    /\ Step(c,
         LET self == heap[calls[c].self]
             kin == VerifyKInput(self, calls[c].call.dom2,
                                 calls[c].signature, calls[c].PHM)
             k == VerifyK(self, kin)
         IN  [calls[c] EXCEPT
                 !.pc = "returned", !.call.kin = kin, !.call.k = k,
                 !.call.res = IF VerifyEquation(self, calls[c].R,
                                                calls[c].s, k)
                              THEN Returned ELSE ErrSigEquation])
    /\ heap' = [heap EXCEPT ![calls[c].self] =
                   SchemeAfterVerify(heap[calls[c].self], calls[c].call.dom2)]
    /\ UNCHANGED <<schemes, held, last>>

\* the caller takes the outcome of its call
ConcReturn(c) ==
    /\ calls[c].pc = "returned"
    /\ Step(c, Idle)
    /\ UNCHANGED <<schemes, held, last, heap>>

NextConc ==
    \E c \in Callers :
        \/ \E key \in ConcKeyArgs, context \in ConcContextArgs :
              ConcNew(c, key, "rfc8032", context)
        \/ \E i \in 1..Len(heap) : ConcCanSign(c, i)
        \/ \E i \in 1..Len(heap), m \in ConcInputs : SignEnter(c, i, m)
        \/ SignNonce(c)
        \/ SignFinish(c)
        \/ \E i \in 1..Len(heap), m \in ConcInputs,
              sig \in ConcSignatureArgs : VerifyEnter(c, i, m, sig)
        \/ VerifyDecode(c)
        \/ VerifyFinish(c)
        \/ ConcReturn(c)

SpecConc == Init /\ [][NextConc]_vars

----------------------------------------------------------------------------
(* What the properties read off a call                                     *)

WellTyped(msg_or_hash) == msg_or_hash.type \in {"bytes", "SHA512Hash"}

\* any of the errors by which verify reports a signature as not authentic
IsInvalidSignature(res) ==
    res \in {ErrSigLength, ErrSigR, ErrSigS, ErrSigEquation}

\* the scalar and the point a 64-byte signature carries
ScalarOf(signature) == FromBytesLE(SubSeq(signature, 33, 64))
RBytesOf(signature) == SubSeq(signature, 1, 32)

\* the prehash flag of an input
PhOf(msg_or_hash) == msg_or_hash.type = "SHA512Hash"

\* dom2 as RFC 8032 defines it for a context and a prehash flag
Dom2Of(context, ph) ==
    IF context = <<>> /\ ~ph THEN <<>>
    ELSE DomPrefix \o <<IF ph THEN 1 ELSE 0>> \o <<Len(context)>> \o context

\* the latest call is a sign or a verify that got as far as building dom2
BuiltDom2 ==
    \/ last.op = "sign" /\ last.call.res = Returned
    \/ last.op = "verify"
         /\ last.call.res \in {Returned, ErrSigR, ErrSigS, ErrSigEquation}

\* the latest call is a verify of the kept signature, by a scheme bound to
\* the signer's key or its public half, over the same message bytes
VerifiesKept ==
    /\ last.op = "verify"
    /\ held.has
    /\ last.signature = held.call.out
    /\ last.self.key.pointQ = held.self.key.pointQ
    /\ WellTyped(last.input)
    /\ last.input.data = held.input.data

SameDomain ==
    /\ last.self.context = held.self.context
    /\ PhOf(last.input) = PhOf(held.input)

----------------------------------------------------------------------------
(* Properties                                                              *)

\* C1: verify rejects, with an invalid-signature error, every 64-byte
\* signature whose scalar s is at least the group order L (s = L included),
\* whatever R, the message, the key and the context are.
C1_RejectsScalarAtOrAboveOrder ==
    (/\ last.op = "verify"
     /\ Len(last.signature) = SigLen
     /\ WellTyped(last.input)
     /\ ScalarOf(last.signature) >= L)
        => IsInvalidSignature(last.call.res)

\* C2: the signature sign returned is accepted by verify on a scheme bound
\* to the same key or its public half, with the same context, the same
\* input and the same mode.
C2_RoundTrip ==
    (VerifiesKept /\ SameDomain) => last.call.res = Returned

C2_Witness ==
    /\ VerifiesKept /\ SameDomain
    /\ ~ last.self.key.private
    /\ last.input.type = "SHA512Hash"
    /\ Len(last.self.context) = MaxContextLen
    /\ last.call.res = Returned

\* C3: a signature made under (context, ph) is verified under another pair
\* (context', ph') for the same key and message bytes: the bytes hashed
\* into the challenge differ, and unless the two challenges collide modulo
\* L the signature is rejected as not authentic.
C3_DomainMismatchRejected ==
    (VerifiesKept /\ ~SameDomain) =>
        /\ last.call.kin # held.call.kin
        /\ last.call.k # held.call.k => IsInvalidSignature(last.call.res)

C3_Witness ==
    /\ VerifiesKept
    /\ held.self.context = <<65>>
    /\ last.self.context = <<>>
    /\ PhOf(last.input) = PhOf(held.input)
    /\ last.call.k # held.call.k
    /\ last.call.res = ErrSigEquation

C5_PrivateKeyRequired ==
    /\ last.op = "can_sign" => (last.flag <=> last.self.key.private)
    /\ (last.op = "sign" /\ WellTyped(last.input)) =>
           IF can_sign(last.self)
           THEN last.call.res = Returned /\ Len(last.call.out) = SigLen
           ELSE last.call.res = ErrPrivateKeyNeeded /\ last.call.out = <<>>

C5_Witness ==
    /\ last.op = "sign"
    /\ last.input.type = "SHA512Hash"
    /\ ~ can_sign(last.self)
    /\ last.call.res = ErrPrivateKeyNeeded

\* C6: for an Ed25519 key and mode 'rfc8032', new raises the
\* context-too-long error iff the context is longer than 255 bytes; an
\* absent context becomes the empty string; every scheme holds a context of
\* 0..255 bytes, and the length byte of dom2 equals the context's length.
C6_ContextBound ==
    /\ (/\ last.op = "new"
        /\ last.key.type = "EccKey" /\ last.key.curve = "ed25519"
        /\ last.mode = "rfc8032")
          => /\ last.call.res = ErrContextTooLong
                   <=> (last.context.given
                          /\ Len(last.context.bytes) > MaxContextLen)
             /\ last.call.res # ErrContextTooLong
                   => /\ last.call.res = Returned
                      /\ last.self.context = last.context.bytes
                      /\ last.self \in schemes
    /\ \A self \in schemes : Len(self.context) \in 0..MaxContextLen
    /\ (BuiltDom2 /\ last.call.dom2 # <<>>)
          => last.call.dom2[Len(DomPrefix) + 2] = Len(last.self.context)

C6_Witness ==
    /\ last.op = "sign"
    /\ last.call.res = Returned
    /\ Len(last.self.context) = MaxContextLen
    /\ last.call.dom2[Len(DomPrefix) + 2] = MaxContextLen

\* C7: dom2 is empty iff the context is empty and the input is raw bytes,
\* and otherwise the prefix, the flag byte, the length byte and the
\* context; sign and verify build the same dom2 for the same
\* (context, ph) and different ones for different pairs.
C7_Dom2 ==
    BuiltDom2 =>
        /\ last.call.dom2 = Dom2Of(last.self.context, PhOf(last.input))
        /\ last.call.dom2 = <<>>
              <=> (last.self.context = <<>> /\ ~PhOf(last.input))
        /\ held.has =>
              (last.call.dom2 = held.call.dom2 <=> SameDomain)

C7_Witness ==
    /\ last.op = "verify"
    /\ held.has
    /\ ~SameDomain
    /\ PhOf(last.input)
    /\ last.self.context = <<>>
    /\ last.call.dom2 = DomPrefix \o <<1, 0>>
    /\ held.call.dom2 # <<>>

\* C8: a 64-byte signature whose R decodes and whose s passes the range
\* check of verify is accepted iff 8*s*G = 8*R + 8*k*A, where k was hashed
\* from dom2, the first 32 bytes of the signature, the scheme's A and PHM;
\* every other signature is rejected as not authentic; and the comparison
\* is the same for R and for R plus a point of order dividing 8.
C8_VerificationEquation ==
    (last.op = "verify" /\ WellTyped(last.input)) =>
        LET sig == last.signature
            self == last.self
        IN  IF /\ Len(sig) = SigLen
               /\ ~ImportPointFails(RBytesOf(sig))
               /\ ~VerifySOutOfRange(self, ScalarOf(sig))
            THEN LET R == ImportPoint(RBytesOf(sig))
                     s == ScalarOf(sig)
                     k == last.call.k
                     A == self.key.pointQ
                 IN  /\ last.call.res = Returned
                           <=> (8 * s * G) % GroupOrder
                                   = (8 * R + 8 * k * A) % GroupOrder
                     /\ last.call.res \in {Returned, ErrSigEquation}
                     /\ k \in 0..(L - 1)
                     /\ SubSeq(last.call.kin, 1, Len(last.call.dom2) + 64)
                           = last.call.dom2 \o RBytesOf(sig) \o self.A
                     /\ self.A = ExportEd25519(A)
                     /\ \A T \in Torsion :
                           VerifyEquation(self, PointAdd(R, T), s, k)
                               = VerifyEquation(self, R, s, k)
            ELSE IsInvalidSignature(last.call.res)

\* accepted although s*G and R + k*A differ by a point of small order
C8_Witness ==
    /\ last.op = "verify"
    /\ last.call.res = Returned
    /\ LET R == ImportPoint(RBytesOf(last.signature))
           s == ScalarOf(last.signature)
       IN  (s * G) % GroupOrder
               # (R + last.call.k * last.self.key.pointQ) % GroupOrder

\* C9 as claimed: an input that is neither bytes nor a hash object makes
\* sign raise the type error of step 1, also when the key has no private
\* half.
C9_TypeCheckedFirst ==
    (last.op = "sign" /\ ~WellTyped(last.input))
        => last.call.res = ErrInputType

\* C9 as amended: sign checks the private half first; without one it
\* raises "Private key is needed to sign" whatever the input is, and the
\* input's type error is raised only when the key has a private half; both
\* are TypeError and differ in their message.
C9_PrivateCheckedFirst ==
    /\ last.op = "sign" =>
          /\ ~last.self.key.private => last.call.res = ErrPrivateKeyNeeded
          /\ (last.self.key.private /\ ~WellTyped(last.input))
                => last.call.res = ErrInputType
    /\ ErrPrivateKeyNeeded.exc = ErrInputType.exc
    /\ ErrPrivateKeyNeeded.msg # ErrInputType.msg

C9_Witness ==
    /\ last.op = "sign"
    /\ ~last.self.key.private
    /\ ~WellTyped(last.input)
    /\ last.call.res = ErrPrivateKeyNeeded

\* C10: no step of can_sign, sign or verify, whether it ends the call
\* normally or with an error and however the steps of concurrent callers
\* interleave, changes the key, the context, A or the order of a scheme
\* object; objects are only ever added, by new.
C10_SchemeImmutable ==
    [][/\ Len(heap') >= Len(heap)
       /\ \A i \in 1..Len(heap) : heap'[i] = heap[i]]_vars

\* two callers are inside sign and verify on the same object
C10_Witness ==
    /\ calls["c1"].pc = "sign_k"
    /\ calls["c2"].pc = "verify_k"
    /\ calls["c1"].self = calls["c2"].self
    /\ heap[calls["c1"].self].context = <<65>>
    /\ heap[calls["c1"].self].key.private

====
